---- MODULE Spec2Model ----
(***************************************************************************)
(* RBDisplayPageModel (sources/rb-display-page-model.c): a GtkTreeStore    *)
(* of display pages with a PLAYING flag per row, sorted by compare_rows,   *)
(* behind a GtkTreeModelFilter that hides rows whose page has visibility   *)
(* FALSE, plus the drag and drop handlers of the model.                    *)
(*                                                                         *)
(* The tree store is kept as the sequence of its rows in depth-first       *)
(* pre-order (the order gtk_tree_model_foreach visits them), each row with *)
(* its depth: a row's children are the rows that follow it with a larger   *)
(* depth.  An iter is an index into that sequence, 0 when there is none.   *)
(***************************************************************************)
EXTENDS Integers, Sequences, FiniteSets, TLC

VARIABLES
    pages,        \* the page objects the application has created
    store,        \* the GtkTreeStore: rows [page, depth, playing, shown] in pre-order
    visibility,   \* the "visibility" property of every page
    connected,    \* the pages page_notify_cb is connected to
    call,         \* the last call made on the model, with its arguments
    result        \* what that call returned, emitted and wrote

vars == <<pages, store, visibility, connected, call, result>>

\* ------------------------------------------------------------------ bounds

\* The most rows the store holds at a time.
MaxRows == 4

\* ------------------------------------------------------------------- pages

NULL == "NULL"

Groups == {"library", "stores", "playlists", "devices", "shared"}

Sources == {"music", "radio", "auto1", "auto2", "static1", "static2"}

Pages == Groups \cup Sources

\* RBDisplayPageGroupCategory, in the order of the enum.
RB_DISPLAY_PAGE_GROUP_CATEGORY_FIXED == 0
RB_DISPLAY_PAGE_GROUP_CATEGORY_PERSISTENT == 1
RB_DISPLAY_PAGE_GROUP_CATEGORY_REMOVABLE == 2
RB_DISPLAY_PAGE_GROUP_CATEGORY_TRANSIENT == 3

\* The class of a page object.
Kind(p) ==
    CASE p \in Groups -> "group"
      [] p \in {"auto1", "auto2"} -> "auto"
      [] p \in {"static1", "static2"} -> "static"
      [] OTHER -> "source"

RB_IS_DISPLAY_PAGE_GROUP(p) == p # NULL /\ Kind(p) = "group"

RB_IS_SOURCE(p) == p # NULL /\ Kind(p) # "group"

RB_IS_AUTO_PLAYLIST_SOURCE(p) == p # NULL /\ Kind(p) = "auto"

RB_IS_STATIC_PLAYLIST_SOURCE(p) == p # NULL /\ Kind(p) = "static"

\* The "category" property of a group; a page that is no group has none.
Category(p) ==
    CASE p \in {"library", "stores"} -> RB_DISPLAY_PAGE_GROUP_CATEGORY_FIXED
      [] p = "playlists" -> RB_DISPLAY_PAGE_GROUP_CATEGORY_PERSISTENT
      [] p = "devices" -> RB_DISPLAY_PAGE_GROUP_CATEGORY_REMOVABLE
      [] p = "shared" -> RB_DISPLAY_PAGE_GROUP_CATEGORY_TRANSIENT
      [] OTHER -> "none"

\* The "name" property of a page, as its rank in the locale's collation
\* order; pages of the same rank have names that collate equal.
Name(p) ==
    CASE p = "devices" -> 1
      [] p = "library" -> 2
      [] p = "playlists" -> 3
      [] p = "shared" -> 4
      [] p = "stores" -> 5
      [] p = "static1" -> 1
      [] p = "auto1" -> 2
      [] p = "music" -> 2
      [] p = "static2" -> 3
      [] p = "auto2" -> 4
      [] p = "radio" -> 4

\* g_utf8_collate with its arguments taken the other way round.
g_utf8_collate_Reversed(a_name, b_name) == b_name - a_name

\* g_utf8_collate: negative, zero or positive.
g_utf8_collate(a_name, b_name) == a_name - b_name

\* rb_source_can_paste of a source.
rb_source_can_paste(p) == p \in {"music", "static1", "static2"}

\* ------------------------------------------------------------- tree store

Row(pg, d, pl, sh) == [page |-> pg, depth |-> d, playing |-> pl, shown |-> sh]

Iters(s) == 1..Len(s)

Max(S) == CHOOSE x \in S : \A y \in S : y <= x

\* The one element of a set of one element.  {F(x) : x \in {e}} holds F of the
\* value of e, e being worked out once.
The(S) == CHOOSE x \in S : TRUE

\* gtk_tree_model_iter_parent: the row above i, 0 for a top-level row.
iter_parent(s, i) ==
    IF s[i].depth = 1 THEN 0
    ELSE Max({k \in 1..(i - 1) : s[k].depth = s[i].depth - 1})

DepthOf(s, i) == IF i = 0 THEN 0 ELSE s[i].depth

\* The last row of the subtree of i (of the whole store for i = 0).
SubtreeEnd(s, i) ==
    IF i = 0 THEN Len(s)
    ELSE Max({j \in i..Len(s) : \A k \in (i + 1)..j : s[k].depth > s[i].depth})

\* gtk_tree_model_iter_has_child
iter_has_child(s, i) == i < Len(s) /\ s[i + 1].depth > s[i].depth

\* The children of row i (the top-level rows for i = 0), in order.
Children(s, i) ==
    SelectSeq([k \in 1..Len(s) |-> k],
              LAMBDA k : k > i /\ k <= SubtreeEnd(s, i)
                         /\ s[k].depth = DepthOf(s, i) + 1)

RECURSIVE Concat(_)
Concat(ss) == IF ss = <<>> THEN <<>> ELSE Head(ss) \o Concat(Tail(ss))

\* The top-level row above (or at) row i.
TopOf(s, i) == Max({k \in 1..i : s[k].depth = 1})

Min0(q) == CHOOSE x \in {q[n] : n \in 1..Len(q)} : \A n \in 1..Len(q) : x <= q[n]

\* ----------------------------------------------------- lookup and sorting

\* match_page_to_iter: the callback of both lookups; dpi is [page, iter, found].
match_page_to_iter(s, iter, dpi) ==
    LET target == s[iter].page
    IN  IF target = dpi.page
        THEN [dpi EXCEPT !.iter = iter, !.found = TRUE]
        ELSE dpi

\* gtk_tree_model_foreach over the rows `rows` (iters, in visiting order) with
\* match_page_to_iter, which stops the walk once it returns TRUE.
RECURSIVE foreach_match(_, _, _)
foreach_match(s, rows, dpi) ==
    IF rows = <<>> THEN dpi
    ELSE LET d == match_page_to_iter(s, Head(rows), dpi)
         IN  IF d.found THEN d ELSE foreach_match(s, Tail(rows), d)

\* find_in_real_model: the iter of the first row of the underlying store that
\* holds page, 0 when the lookup returns FALSE.
find_in_real_model(s, page) ==
    LET dpi == foreach_match(s, [k \in 1..Len(s) |-> k],
                             [page |-> page, iter |-> 0, found |-> FALSE])
    IN  IF dpi.found THEN dpi.iter ELSE 0

\* The value compare_rows has no defined result for (g_assert_not_reached).
NotReached == "g_assert_not_reached"

\* compare_rows with the playlists below a PERSISTENT group ordered by name
\* alone, auto or static.
compare_rows_PlaylistsByName(s, a, b) ==
    LET a_page == s[a].page
        b_page == s[b].page
        a_name == Name(a_page)
        b_name == Name(b_page)
    IN  IF RB_IS_DISPLAY_PAGE_GROUP(a_page) /\ RB_IS_DISPLAY_PAGE_GROUP(b_page)
        THEN LET a_cat == Category(a_page)
                 b_cat == Category(b_page)
             IN  IF a_cat < b_cat THEN -1
                 ELSE IF a_cat > b_cat THEN 1
                 ELSE g_utf8_collate(a_name, b_name)
        ELSE LET group_page == s[TopOf(s, a)].page
                 category == Category(group_page)
             IN  IF category = RB_DISPLAY_PAGE_GROUP_CATEGORY_FIXED THEN -1
                 ELSE g_utf8_collate(a_name, b_name)

\* compare_rows: the sort function of the store, on the rows at iters a and b.
compare_rows(s, a, b) ==
    LET a_page == s[a].page
        b_page == s[b].page
        a_name == Name(a_page)
        b_name == Name(b_page)
    IN  IF RB_IS_DISPLAY_PAGE_GROUP(a_page) /\ RB_IS_DISPLAY_PAGE_GROUP(b_page)
        THEN LET a_cat == Category(a_page)
                 b_cat == Category(b_page)
             IN  IF a_cat < b_cat THEN -1
                 ELSE IF a_cat > b_cat THEN 1
                 ELSE g_utf8_collate(a_name, b_name)
        ELSE LET group_page == s[TopOf(s, a)].page
                 category == Category(group_page)
             IN  CASE category = RB_DISPLAY_PAGE_GROUP_CATEGORY_FIXED -> -1
                   [] category = RB_DISPLAY_PAGE_GROUP_CATEGORY_PERSISTENT ->
                        IF RB_IS_AUTO_PLAYLIST_SOURCE(a_page)
                           /\ RB_IS_AUTO_PLAYLIST_SOURCE(b_page)
                        THEN g_utf8_collate(a_name, b_name)
                        ELSE IF RB_IS_STATIC_PLAYLIST_SOURCE(a_page)
                                /\ RB_IS_STATIC_PLAYLIST_SOURCE(b_page)
                        THEN g_utf8_collate(a_name, b_name)
                        ELSE IF RB_IS_AUTO_PLAYLIST_SOURCE(a_page) THEN -1
                        ELSE 1
                   [] category \in {RB_DISPLAY_PAGE_GROUP_CATEGORY_REMOVABLE,
                                    RB_DISPLAY_PAGE_GROUP_CATEGORY_TRANSIENT} ->
                        g_utf8_collate(a_name, b_name)
                   [] OTHER -> NotReached

\* The scan of gtk_tree_store_sort_iter_changed for the new place of row i
\* among its other siblings: the number of siblings that end up before it.
RECURSIVE new_location(_, _, _, _)
new_location(s, i, others, k) ==
    IF compare_rows(s, i, others[k]) > 0
    THEN IF k < Len(others) THEN new_location(s, i, others, k + 1) ELSE k
    ELSE k - 1

\* The store with the children of one row put in the order `order` (iters of
\* the present store), each with its subtree, and the new iter of row i.
Reordered(s, order, i) ==
    LET first == Min0(order)
        block(k) == SubSeq(s, k, SubtreeEnd(s, k))
        last == Max({SubtreeEnd(s, order[n]) : n \in 1..Len(order)})
        pos == CHOOSE n \in 1..Len(order) : order[n] = i
        before == Concat([n \in 1..(pos - 1) |-> block(order[n])])
    IN  [store |-> SubSeq(s, 1, first - 1)
                   \o Concat([n \in 1..Len(order) |-> block(order[n])])
                   \o SubSeq(s, last + 1, Len(s)),
         iter |-> first + Len(before)]

\* gtk_tree_store_sort_iter_changed: what the store does to the row at iter i
\* after its values were set: the row stays when it is in order with its two
\* neighbours, else it is unlinked and put back before the first sibling it
\* does not sort after.  Gives the store and the row's new iter.
gtk_tree_store_sort_iter_changed(s, i) ==
    LET sibs == Children(s, iter_parent(s, i))
        pos == CHOOSE n \in 1..Len(sibs) : sibs[n] = i
        prev == IF pos > 1 THEN sibs[pos - 1] ELSE 0
        next == IF pos < Len(sibs) THEN sibs[pos + 1] ELSE 0
        cmp_a == IF prev # 0 THEN compare_rows(s, prev, i) ELSE 0
        cmp_b == IF next # 0 THEN compare_rows(s, i, next) ELSE 0
        stays == \/ prev = 0 /\ cmp_b <= 0
                 \/ next = 0 /\ cmp_a <= 0
                 \/ prev # 0 /\ next # 0 /\ cmp_a <= 0 /\ cmp_b <= 0
        others == SelectSeq(sibs, LAMBDA k : k # i)
        loc == new_location(s, i, others, 1)
        order == SubSeq(others, 1, loc) \o <<i>> \o SubSeq(others, loc + 1, Len(others))
    IN  IF stays THEN [store |-> s, iter |-> i] ELSE Reordered(s, order, i)

\* ------------------------------------------------------------- the filter

\* A visible function that shows a row without a page.
is_row_visible_EmptyRowShown(vis, page) ==
    IF page # NULL THEN vis[page] ELSE TRUE

\* rb_display_page_model_is_row_visible: the filter's visible function, on the
\* page a row holds.
rb_display_page_model_is_row_visible(vis, page) ==
    IF page # NULL THEN vis[page] ELSE FALSE

\* The filter on row-inserted and row-changed of the child model: it asks the
\* visible function about the row and keeps the answer.
filter_row_changed(m, i) ==
    [m EXCEPT !.store[i].shown =
        rb_display_page_model_is_row_visible(m.visibility, m.store[i].page)]

\* ------------------------------------------------- signals and properties

\* page_notify_cb: a property of page changed; the row that holds it is
\* reported changed on the underlying store, which the filter listens to.
page_notify_cb(m, page) ==
    LET iter == find_in_real_model(m.store, page)
    IN  IF iter = 0 THEN m ELSE filter_row_changed(m, iter)

\* The row page_notify_cb reports changed when a property of page is notified:
\* the iter of the row of page where add_page connected the callback and the
\* lookup finds the row, 0 when no row-changed is emitted.
page_notify_row_changed(m, page) ==
    IF page \in m.connected THEN find_in_real_model(m.store, page) ELSE 0

\* g_object_set (page, "visibility", v): the property is written and notified
\* to page_notify_cb where add_page connected it.
set_visibility(m, page, v) ==
    LET m1 == [m EXCEPT !.visibility[page] = v]
    IN  IF page \in m.connected THEN page_notify_cb(m1, page) ELSE m1

\* A handler of row-has-child-toggled that shows the group whatever it holds.
update_group_visibility_cb_Shows(m, iter) ==
    LET page == m.store[iter].page
    IN  IF RB_IS_DISPLAY_PAGE_GROUP(page)
        THEN set_visibility(m, page, TRUE)
        ELSE m

\* update_group_visibility_cb: the handler of row-has-child-toggled.
update_group_visibility_cb(m, iter) ==
    LET page == m.store[iter].page
    IN  IF RB_IS_DISPLAY_PAGE_GROUP(page)
        THEN set_visibility(m, page, iter_has_child(m.store, iter))
        ELSE m

\* gtk_tree_store_prepend: as gtk_tree_store_append, the new row being the
\* first child of parent_iter.
gtk_tree_store_prepend(m, parent_iter) ==
    LET s == m.store
        iter == parent_iter + 1
        had_child == parent_iter # 0 /\ iter_has_child(s, parent_iter)
        row == Row(NULL, DepthOf(s, parent_iter) + 1, FALSE, FALSE)
        s1 == SubSeq(s, 1, iter - 1) \o <<row>> \o SubSeq(s, iter, Len(s))
        m1 == filter_row_changed([m EXCEPT !.store = s1], iter)
        m2 == IF parent_iter # 0 /\ ~had_child
              THEN update_group_visibility_cb(m1, parent_iter)
              ELSE m1
    IN  [m |-> m2, iter |-> iter, inserted_shown |-> m1.store[iter].shown,
         toggled |-> IF parent_iter # 0 /\ ~had_child THEN s[parent_iter].page ELSE NULL]

\* gtk_tree_store_append: a new empty row as the last child of parent_iter (at
\* top level for 0).  The filter sees row-inserted, and a parent that had no
\* child reports row-has-child-toggled.  Gives the model and the new iter.
gtk_tree_store_append(m, parent_iter) ==
    LET s == m.store
        iter == SubtreeEnd(s, parent_iter) + 1
        had_child == parent_iter # 0 /\ iter_has_child(s, parent_iter)
        row == Row(NULL, DepthOf(s, parent_iter) + 1, FALSE, FALSE)
        s1 == SubSeq(s, 1, iter - 1) \o <<row>> \o SubSeq(s, iter, Len(s))
        m1 == filter_row_changed([m EXCEPT !.store = s1], iter)
        m2 == IF parent_iter # 0 /\ ~had_child
              THEN update_group_visibility_cb(m1, parent_iter)
              ELSE m1
    IN  [m |-> m2, iter |-> iter, inserted_shown |-> m1.store[iter].shown,
         toggled |-> IF parent_iter # 0 /\ ~had_child THEN s[parent_iter].page ELSE NULL]

\* gtk_tree_store_set: the columns are written, the row is put in its sorted
\* place (the store has a sort function) and reported changed.
gtk_tree_store_set(m, iter, playing, page) ==
    LET s1 == [m.store EXCEPT ![iter].playing = playing, ![iter].page = page]
        r == gtk_tree_store_sort_iter_changed(s1, iter)
    IN  [m |-> filter_row_changed([m EXCEPT !.store = r.store], r.iter),
         iter |-> r.iter]

\* A gtk_tree_store_remove that takes the row alone and lifts the rows below
\* it by one level.
gtk_tree_store_remove_RowAlone(m, iter) ==
    LET s == m.store
        parent == iter_parent(s, iter)
        below == [k \in 1..(SubtreeEnd(s, iter) - iter) |->
                     [s[iter + k] EXCEPT !.depth = @ - 1]]
        s1 == SubSeq(s, 1, iter - 1) \o below \o SubSeq(s, SubtreeEnd(s, iter) + 1, Len(s))
        m1 == [m EXCEPT !.store = s1]
    IN  IF parent # 0 /\ ~iter_has_child(s1, parent)
        THEN [m |-> update_group_visibility_cb(m1, parent), toggled |-> s[parent].page]
        ELSE [m |-> m1, toggled |-> NULL]

\* gtk_tree_store_remove: the row and the rows below it leave the store; a
\* parent left without a child reports row-has-child-toggled.
gtk_tree_store_remove(m, iter) ==
    LET s == m.store
        parent == iter_parent(s, iter)
        s1 == SubSeq(s, 1, iter - 1) \o SubSeq(s, SubtreeEnd(s, iter) + 1, Len(s))
        m1 == [m EXCEPT !.store = s1]
    IN  IF parent # 0 /\ ~iter_has_child(s1, parent)
        THEN [m |-> update_group_visibility_cb(m1, parent), toggled |-> s[parent].page]
        ELSE [m |-> m1, toggled |-> NULL]

\* ---------------------------------------------------------- the model API

\* rb_display_page_model_add_page, past its assertion.
rb_display_page_model_add_page(m, page, parent) ==
    LET m0 == IF parent # NULL THEN m ELSE set_visibility(m, page, FALSE)
        parent_iter == IF parent # NULL THEN find_in_real_model(m.store, parent) ELSE 0
        set(a) == The({[m |-> [b.m EXCEPT !.connected = @ \cup {page}],
                        iter |-> b.iter, inserted_shown |-> a.inserted_shown,
                        toggled |-> a.toggled] :
                           b \in {gtk_tree_store_set(a.m, a.iter, FALSE, page)}})
    IN  The({set(a) : a \in {gtk_tree_store_append(m0, parent_iter)}})

\* rb_display_page_model_remove_page, past its assertion.
rb_display_page_model_remove_page(m, page) ==
    LET iter == find_in_real_model(m.store, page)
        r == gtk_tree_store_remove(m, iter)
    IN  [m |-> [r.m EXCEPT !.connected = @ \ {page}], toggled |-> r.toggled]

\* set_playing_flag: the foreach callback of set_playing_source on one row.
\* Gives the model and the iter of the row after the call.
set_playing_flag(m, iter, source) ==
    LET page == m.store[iter].page
        old_playing == m.store[iter].playing
        new_playing == (page = source)
    IN  IF RB_IS_SOURCE(page) /\ (old_playing \/ new_playing)
        THEN gtk_tree_store_set(m, iter, new_playing, page)
        ELSE [m |-> m, iter |-> iter]

\* gtk_tree_model_foreach with set_playing_flag, which never stops the walk:
\* after a row the walk goes on to the row that follows it in pre-order, from
\* the place the row has after the callback.  `seen` holds the (model, iter)
\* the walk has been at: a walk that comes back to one never ends, and then
\* returns is FALSE.
RECURSIVE foreach_set_playing_flag(_, _, _, _)
foreach_set_playing_flag(m, iter, source, seen) ==
    IF iter > Len(m.store) THEN [m |-> m, returns |-> TRUE]
    ELSE IF <<m, iter>> \in seen THEN [m |-> m, returns |-> FALSE]
    ELSE The({foreach_set_playing_flag(r.m, r.iter + 1, source, seen \cup {<<m, iter>>}) :
                 r \in {set_playing_flag(m, iter, source)}})

\* rb_display_page_model_set_playing_source
rb_display_page_model_set_playing_source(m, source) ==
    foreach_set_playing_flag(m, 1, source, {})

\* An assertion that wants the page in a row and visible.
g_assert_find_visible(m, page) ==
    find_in_real_model(m.store, page) # 0 /\ m.visibility[page]

\* g_assert (find_in_real_model (page_model, page, &iter)): whether the
\* assertion of add_page, on the parent, and of remove_page, on the page, holds.
g_assert_find_in_real_model(m, page) ==
    find_in_real_model(m.store, page) # 0

\* rb_display_page_model_add_page with its assertion: the program aborts when
\* the assertion fails, which is before anything is written.
add_page_call(m, page, parent) ==
    IF parent # NULL /\ ~g_assert_find_in_real_model(m, parent)
    THEN [m |-> m, aborted |-> TRUE]
    ELSE [m |-> rb_display_page_model_add_page(m, page, parent).m, aborted |-> FALSE]

\* rb_display_page_model_remove_page with its assertion.
remove_page_call(m, page) ==
    IF ~g_assert_find_in_real_model(m, page)
    THEN [m |-> m, aborted |-> TRUE]
    ELSE [m |-> rb_display_page_model_remove_page(m, page).m, aborted |-> FALSE]

\* ---------------------------------------------- the model seen as a filter

\* The rows the filter model shows: rows it keeps as shown, below shown rows.
RECURSIVE InFilter(_, _)
InFilter(s, i) ==
    /\ s[i].shown
    /\ iter_parent(s, i) = 0 \/ InFilter(s, iter_parent(s, i))

\* The rows of the filter model in the order gtk_tree_model_foreach visits them.
FilterRows(s) == SelectSeq([k \in 1..Len(s) |-> k], LAMBDA k : InFilter(s, k))

\* A GtkTreePath is the sequence of its indices; a path that is NULL is the
\* empty one, which no path of a row is.
NoPath == <<>>

\* gtk_tree_model_get_iter on the filter model: the row at a path of child
\* indices counted among the shown rows, 0 when the path leads nowhere.
RECURSIVE filter_get_iter(_, _, _)
filter_get_iter(s, parent, path) ==
    LET kids == SelectSeq(Children(s, parent), LAMBDA k : s[k].shown)
    IN  IF path = <<>> THEN parent
        ELSE IF Head(path) + 1 > Len(kids) THEN 0
        ELSE filter_get_iter(s, kids[Head(path) + 1], Tail(path))

\* A find_page that looks in the underlying store, as find_in_real_model does.
find_page_InRealModel(s, page, iter) ==
    LET dpi == foreach_match(s, [k \in 1..Len(s) |-> k],
                             [page |-> page, iter |-> 0, found |-> FALSE])
    IN  IF dpi.found THEN [ret |-> TRUE, iter |-> dpi.iter]
                     ELSE [ret |-> FALSE, iter |-> iter]

\* rb_display_page_model_find_page: the lookup through the filter; iter is the
\* caller's iter, written only when the page is found.
rb_display_page_model_find_page(s, page, iter) ==
    LET dpi == foreach_match(s, FilterRows(s),
                             [page |-> page, iter |-> 0, found |-> FALSE])
    IN  IF dpi.found THEN [ret |-> TRUE, iter |-> dpi.iter]
                     ELSE [ret |-> FALSE, iter |-> iter]

\* ------------------------------------------------------------ drag and drop

\* The target infos of dnd_targets.
TARGET_PROPERTY == 0
TARGET_SOURCE == 1
TARGET_URIS == 2
TARGET_ENTRIES == 3
TARGET_DELETE == 4

dnd_targets ==
    << [target |-> "text/x-rhythmbox-album", info |-> TARGET_PROPERTY],
       [target |-> "text/x-rhythmbox-artist", info |-> TARGET_PROPERTY],
       [target |-> "text/x-rhythmbox-genre", info |-> TARGET_PROPERTY],
       [target |-> "application/x-rhythmbox-source", info |-> TARGET_SOURCE],
       [target |-> "application/x-rhythmbox-entry", info |-> TARGET_ENTRIES],
       [target |-> "text/uri-list", info |-> TARGET_URIS],
       [target |-> "application/x-delete-me", info |-> TARGET_DELETE] >>

\* The atoms a drag can offer: the targets of dnd_targets and a foreign one.
Atoms == {dnd_targets[n].target : n \in 1..Len(dnd_targets)} \cup {"text/plain"}

\* gtk_target_list_find on drag_target_list: whether the list holds a target,
\* and its info.
gtk_target_list_find(target) ==
    IF \E n \in 1..Len(dnd_targets) : dnd_targets[n].target = target
    THEN [found |-> TRUE,
          info |-> dnd_targets[CHOOSE n \in 1..Len(dnd_targets) :
                                   dnd_targets[n].target = target].info]
    ELSE [found |-> FALSE, info |-> NULL]

\* A drag_data_received that takes a drop of a source as it takes a drop of
\* an album, and one that hands an album, artist or genre to the page at dest.
drag_data_received_SourceAccepted(s, dest, pos, type) ==
    IF type = "text/uri-list" \/ type = "application/x-rhythmbox-entry"
    THEN LET iter == IF dest # NoPath THEN filter_get_iter(s, 0, dest) ELSE 0
             target == IF iter # 0 THEN s[iter].page ELSE NULL
         IN  [ret |-> TRUE, emitted |-> <<[target |-> target, pos |-> pos]>>]
    ELSE IF type \in {"text/x-rhythmbox-album", "text/x-rhythmbox-artist",
                      "text/x-rhythmbox-genre", "application/x-rhythmbox-source"}
    THEN [ret |-> TRUE, emitted |-> <<[target |-> NULL, pos |-> pos]>>]
    ELSE [ret |-> FALSE, emitted |-> <<>>]

drag_data_received_PropertyOnPage(s, dest, pos, type) ==
    IF type \in {"text/uri-list", "application/x-rhythmbox-entry",
                 "text/x-rhythmbox-album", "text/x-rhythmbox-artist",
                 "text/x-rhythmbox-genre"}
    THEN LET iter == IF dest # NoPath THEN filter_get_iter(s, 0, dest) ELSE 0
             target == IF iter # 0 THEN s[iter].page ELSE NULL
         IN  [ret |-> TRUE, emitted |-> <<[target |-> target, pos |-> pos]>>]
    ELSE [ret |-> FALSE, emitted |-> <<>>]

\* rb_display_page_model_drag_data_received: what it returns and the
\* drop-received signals it emits, each with its target page and position.
rb_display_page_model_drag_data_received(s, dest, pos, type) ==
    IF type = "text/uri-list" \/ type = "application/x-rhythmbox-entry"
    THEN LET iter == IF dest # NoPath THEN filter_get_iter(s, 0, dest) ELSE 0
             target == IF iter # 0 THEN s[iter].page ELSE NULL
         IN  [ret |-> TRUE, emitted |-> <<[target |-> target, pos |-> pos]>>]
    ELSE IF type \in {"text/x-rhythmbox-album", "text/x-rhythmbox-artist",
                      "text/x-rhythmbox-genre"}
    THEN [ret |-> TRUE, emitted |-> <<[target |-> NULL, pos |-> pos]>>]
    ELSE IF type = "application/x-rhythmbox-source"
    THEN [ret |-> FALSE, emitted |-> <<>>]
    ELSE [ret |-> FALSE, emitted |-> <<>>]

\* A path_is_droppable that takes every row that holds a page.
path_is_droppable_AnyPage(s, dest) ==
    LET iter == filter_get_iter(s, 0, dest)
    IN  IF iter # 0 THEN s[iter].page # NULL ELSE FALSE

\* path_is_droppable: whether the row at dest in the filter model holds a
\* source that can paste.
path_is_droppable(s, dest) ==
    LET iter == filter_get_iter(s, 0, dest)
        page == s[iter].page
    IN  IF iter # 0
        THEN IF page # NULL
             THEN IF RB_IS_SOURCE(page) THEN rb_source_can_paste(page) ELSE FALSE
             ELSE FALSE
        ELSE FALSE

\* rb_display_page_model_row_drop_position: targets is the set of atoms the
\* drag offers, pos the caller's position, written only when the drop is taken.
rb_display_page_model_row_drop_position(s, dest_path, targets, pos) ==
    IF "application/x-rhythmbox-source" \in targets /\ dest_path # NoPath
    THEN [ret |-> FALSE, pos |-> pos]
    ELSE IF "text/uri-list" \in targets \/ "application/x-rhythmbox-entry" \in targets
    THEN IF dest_path # NoPath /\ ~path_is_droppable(s, dest_path)
         THEN [ret |-> FALSE, pos |-> pos]
         ELSE [ret |-> TRUE, pos |-> "GTK_TREE_VIEW_DROP_INTO_OR_BEFORE"]
    ELSE IF /\ \/ "text/x-rhythmbox-artist" \in targets
               \/ "text/x-rhythmbox-album" \in targets
               \/ "text/x-rhythmbox-genre" \in targets
            /\ "application/x-rhythmbox-source" \notin targets
    THEN [ret |-> TRUE, pos |-> "GTK_TREE_VIEW_DROP_AFTER"]
    ELSE [ret |-> FALSE, pos |-> pos]

\* The entries of the "query-model" of a source, each with its location and id.
QueryModel(p) ==
    CASE p = "music" -> <<[location |-> "file:///a.ogg", id |-> "1"],
                          [location |-> "file:///b.ogg", id |-> "2"]>>
      [] p = "radio" -> <<[location |-> "http://radio/", id |-> "3"]>>
      [] OTHER -> <<>>

\* The data drag_data_get builds for the entries of a query model: a line
\* break before the first entry, then every location or every id.
RECURSIVE uri_list_data(_, _, _)
uri_list_data(entries, target, first) ==
    IF entries = <<>> THEN <<>>
    ELSE (IF first THEN <<"\r\n">> ELSE <<>>)
         \o <<IF target = TARGET_URIS THEN Head(entries).location ELSE Head(entries).id>>
         \o uri_list_data(Tail(entries), target, FALSE)

\* gtk_tree_path_to_string: the indices of a path, colons between them.
RECURSIVE gtk_tree_path_to_string(_)
gtk_tree_path_to_string(path) ==
    IF Len(path) = 1 THEN <<ToString(Head(path))>>
    ELSE <<ToString(Head(path)), ":">> \o gtk_tree_path_to_string(Tail(path))

\* A drag_data_get that answers every target of dnd_targets with the path of
\* the row.
drag_data_get_EveryTarget(s, path, selection_data_target, selection) ==
    IF path = NoPath THEN [ret |-> FALSE, selection |-> selection]
    ELSE IF ~gtk_target_list_find(selection_data_target).found
    THEN [ret |-> FALSE, selection |-> selection]
    ELSE [ret |-> TRUE,
          selection |-> [target |-> selection_data_target, format |-> 8,
                         data |-> gtk_tree_path_to_string(path)]]

\* rb_display_page_model_drag_data_get: path is the path of the dragged row in
\* the filter model, NoPath when its row reference has none; selection is the
\* caller's selection data, written only by gtk_selection_data_set.
rb_display_page_model_drag_data_get(s, path, selection_data_target, selection) ==
    LET found == gtk_target_list_find(selection_data_target).found
        target == gtk_target_list_find(selection_data_target).info
        iter == filter_get_iter(s, 0, path)
        page == s[iter].page
        entries == QueryModel(page)
        set(data) == [target |-> selection_data_target, format |-> 8, data |-> data]
    IN  IF path = NoPath THEN [ret |-> FALSE, selection |-> selection]
        ELSE IF ~found THEN [ret |-> FALSE, selection |-> selection]
        ELSE IF target = TARGET_SOURCE
        THEN [ret |-> TRUE, selection |-> set(gtk_tree_path_to_string(path))]
        ELSE IF target \in {TARGET_URIS, TARGET_ENTRIES}
        THEN IF iter = 0 THEN [ret |-> FALSE, selection |-> selection]
             ELSE IF ~RB_IS_SOURCE(page) THEN [ret |-> FALSE, selection |-> selection]
             ELSE IF entries = <<>> THEN [ret |-> FALSE, selection |-> selection]
             ELSE [ret |-> TRUE, selection |-> set(uri_list_data(entries, target, TRUE))]
        ELSE [ret |-> FALSE, selection |-> selection]

\* ------------------------------------------------------------ the machine

Model == [store |-> store, visibility |-> visibility, connected |-> connected]

Becomes(m) ==
    /\ pages' = pages
    /\ store' = m.store
    /\ visibility' = m.visibility
    /\ connected' = m.connected

InStore(page) == \E i \in 1..Len(store) : store[i].page = page

Idle == [op |-> "none"]

\* The calls that ask the model and leave it as it is.
Queries == {"find_page", "drag_data_received", "drag_data_get"}

\* The sets of pages an application is run with: the groups of every category
\* with one source, and one or two groups with sources of the kinds sorted
\* below them.
Applications ==
    { {"library", "stores", "playlists", "devices", "shared", "music"},
      {"library", "music", "radio", "static1", "auto1"},
      {"playlists", "auto1", "auto2", "static1", "static2"},
      {"playlists", "music", "radio", "auto1", "static1"},
      {"devices", "shared", "music", "radio", "static1"} }

\* The pages whose visibility the application changes while they are shown.
Hideable == {"music", "static1"}

\* The paths a drop or a drag names, and the positions of a drop.
Paths == {<<0>>, <<1>>, <<0, 0>>, <<0, 1>>}

Positions == {"GTK_TREE_VIEW_DROP_BEFORE", "GTK_TREE_VIEW_DROP_INTO_OR_AFTER"}

\* The iter and the selection data a caller passes in, before anything is
\* written to them.
UnwrittenIter == -1

UnwrittenSelection == [target |-> NULL, format |-> 0, data |-> <<>>]

\* The pages of the application drops and drags are tried on, and of the one
\* that adds a page again.
DragApplications == { {"library", "playlists", "music", "radio"} }

AgainApplications == { {"library", "music", "radio"}, {"playlists", "music", "static1"} }

\* The model as rb_display_page_model_new leaves it, in an application whose
\* pages are one of apps.
InitWith(apps) ==
    /\ pages \in apps
    /\ store = <<>>
    /\ visibility = [p \in Pages |-> TRUE]
    /\ connected = {}
    /\ call = Idle
    /\ result = Idle

Init == InitWith(Applications)

\* add_page as the application calls it: a group at the top level, any other
\* page below a page of the store, and no page that already has a row.
AddPage(page, parent) ==
    /\ call.op \notin Queries
    /\ Len(store) < MaxRows
    /\ ~InStore(page)
    /\ IF page \in Groups THEN parent = NULL ELSE parent # NULL /\ InStore(parent)
    /\ \E r \in {rb_display_page_model_add_page(Model, page, parent)} :
           /\ Becomes(r.m)
           /\ call' = [op |-> "add_page"]
           /\ result' = [inserted_shown |-> r.inserted_shown, toggled |-> r.toggled]

RemovePage(page) ==
    /\ call.op \notin Queries
    /\ InStore(page)
    /\ \E r \in {rb_display_page_model_remove_page(Model, page)} :
           /\ Becomes(r.m)
           /\ call' = [op |-> "remove_page"]
           /\ result' = [toggled |-> r.toggled]

\* set_playing_source; a call whose walk of the store never ends does not return.
SetPlayingSource(source) ==
    /\ call.op \notin Queries
    /\ \E r \in {rb_display_page_model_set_playing_source(Model, source)} :
           /\ r.returns
           /\ Becomes(r.m)
    /\ call' = Idle
    /\ result' = Idle

\* The application shows or hides a source.
SetVisibility(page, v) ==
    /\ call.op \notin Queries
    /\ visibility[page] # v
    /\ Becomes(set_visibility(Model, page, v))
    /\ call' = Idle
    /\ result' = Idle

FindPage(page) ==
    /\ call.op \notin Queries
    /\ call' = [op |-> "find_page", page |-> page]
    /\ result' = rb_display_page_model_find_page(store, page, UnwrittenIter)
    /\ UNCHANGED <<pages, store, visibility, connected>>

DragDataReceived(dest, pos, type) ==
    /\ call.op \notin Queries
    /\ call' = [op |-> "drag_data_received", dest |-> dest, pos |-> pos, type |-> type]
    /\ result' = rb_display_page_model_drag_data_received(store, dest, pos, type)
    /\ UNCHANGED <<pages, store, visibility, connected>>

DragDataGet(path, target) ==
    /\ call.op \notin Queries
    /\ call' = [op |-> "drag_data_get", path |-> path, target |-> target]
    /\ result' = rb_display_page_model_drag_data_get(store, path, target, UnwrittenSelection)
    /\ UNCHANGED <<pages, store, visibility, connected>>

\* The caller has its answer.
Return ==
    /\ call.op \in Queries
    /\ call' = Idle
    /\ result' = Idle
    /\ UNCHANGED <<pages, store, visibility, connected>>

Next ==
    \/ \E page \in pages, parent \in pages \cup {NULL} : AddPage(page, parent)
    \/ \E page \in pages : RemovePage(page)
    \/ \E source \in pages \cup {NULL} : SetPlayingSource(source)
    \/ \E page \in pages \cap Hideable, v \in BOOLEAN : SetVisibility(page, v)

Spec == Init /\ [][Next]_vars

NextFind ==
    \/ Next
    \/ \E page \in pages \cup {NULL} : FindPage(page)
    \/ Return

\* The calls of Spec and lookups through the filter.
SpecFind == Init /\ [][NextFind]_vars

NextDnd ==
    \/ Next
    \/ \E dest \in Paths \cup {NoPath}, pos \in Positions, type \in Atoms :
          DragDataReceived(dest, pos, type)
    \/ \E path \in Paths \cup {NoPath}, target \in Atoms : DragDataGet(path, target)
    \/ Return

\* The calls of Spec and drops and drags on the model.
SpecDnd == InitWith(DragApplications) /\ [][NextDnd]_vars

\* add_page for a page that already has a row: the code does not look.
AddPageAgain(page, parent) ==
    /\ call.op \notin Queries
    /\ Len(store) < MaxRows
    /\ InStore(page)
    /\ IF page \in Groups THEN parent = NULL ELSE parent # NULL /\ InStore(parent)
    /\ \E r \in {rb_display_page_model_add_page(Model, page, parent)} :
           /\ Becomes(r.m)
           /\ call' = [op |-> "add_page"]
           /\ result' = [inserted_shown |-> r.inserted_shown, toggled |-> r.toggled]

NextAgain ==
    \/ Next
    \/ \E page \in pages, parent \in pages \cup {NULL} : AddPageAgain(page, parent)

\* The calls of Spec, a page added more than once included.
SpecAgain == InitWith(AgainApplications) /\ [][NextAgain]_vars

\* The program has aborted on an assertion.
Aborted == "aborted" \in DOMAIN call /\ call.aborted

\* The pages of the application that calls with pages the model does not hold.
AssertApplications == { {"library", "playlists", "music", "radio", "static1"} }

\* add_page with any page as parent, in the store or not.
AddPageCall(page, parent) ==
    /\ ~Aborted
    /\ call.op \notin Queries
    /\ Len(store) < MaxRows
    /\ ~InStore(page)
    /\ IF page \in Groups THEN parent = NULL ELSE parent # NULL
    /\ \E r \in {add_page_call(Model, page, parent)} :
           /\ Becomes(r.m)
           /\ call' = [op |-> "add_page", page |-> page, parent |-> parent,
                       aborted |-> r.aborted]
    /\ result' = Idle

\* remove_page of any page, in the store or not.
RemovePageCall(page) ==
    /\ ~Aborted
    /\ call.op \notin Queries
    /\ \E r \in {remove_page_call(Model, page)} :
           /\ Becomes(r.m)
           /\ call' = [op |-> "remove_page", page |-> page, aborted |-> r.aborted]
    /\ result' = Idle

NextAssert ==
    \/ \E page \in pages, parent \in pages \cup {NULL} : AddPageCall(page, parent)
    \/ \E page \in pages : RemovePageCall(page)
    \/ ~Aborted /\ \E source \in pages \cup {NULL} : SetPlayingSource(source)
    \/ ~Aborted /\ \E page \in pages \cap Hideable, v \in BOOLEAN : SetVisibility(page, v)

\* The calls of Spec with their assertions, until one fails.
SpecAssert == InitWith(AssertApplications) /\ [][NextAssert]_vars

\* The position a caller passes in, before anything is written to it.
UnwrittenPos == "unwritten"

\* The lists of targets a drag offers to row_drop_position.
OfferedTargets ==
    SUBSET {"application/x-rhythmbox-source", "text/uri-list",
            "application/x-rhythmbox-entry", "text/x-rhythmbox-album", "text/plain"}
    \cup {{"text/x-rhythmbox-artist"}, {"text/x-rhythmbox-genre"},
          {"text/x-rhythmbox-genre", "application/x-rhythmbox-source"}}

RowDropPosition(dest_path, targets) ==
    /\ call.op \notin Queries \cup {"row_drop_position"}
    /\ call' = [op |-> "row_drop_position", dest_path |-> dest_path, targets |-> targets]
    /\ result' = rb_display_page_model_row_drop_position(store, dest_path, targets,
                                                         UnwrittenPos)
    /\ UNCHANGED <<pages, store, visibility, connected>>

NextDrop ==
    \/ Next
    \/ \E dest_path \in Paths \cup {NoPath}, targets \in OfferedTargets :
          RowDropPosition(dest_path, targets)

\* The calls of Spec and drags over the rows of the model.
SpecDrop == InitWith(DragApplications) /\ [][NextDrop]_vars

\* The pages of the application whose playing source is followed.
PlayingApplications ==
    { {"library", "music", "radio", "static1"},
      {"playlists", "auto1", "static1", "static2"},
      {"playlists", "music", "radio", "static1"} }

\* set_playing_source, the caller keeping the source it passed.
SetPlayingSourceCall(source) ==
    /\ call.op \notin Queries
    /\ \E r \in {rb_display_page_model_set_playing_source(Model, source)} :
           /\ r.returns
           /\ Becomes(r.m)
    /\ call' = [op |-> "set_playing_source", source |-> source]
    /\ result' = Idle

NextPlaying ==
    \/ \E page \in pages, parent \in pages \cup {NULL} : AddPage(page, parent)
    \/ \E page \in pages : RemovePage(page)
    \/ \E source \in pages \cup {NULL, "radio"} : SetPlayingSourceCall(source)
    \/ \E page \in pages \cap Hideable, v \in BOOLEAN : SetVisibility(page, v)

\* The calls of Spec, the source of set_playing_source kept.
SpecPlaying == InitWith(PlayingApplications) /\ [][NextPlaying]_vars

\* A property of a page is set and notified, the page in the model or not: its
\* visibility, or with v the visibility it has, its name or its pixbuf.
PageNotify(page, v) ==
    /\ ~Aborted
    /\ call.op \notin Queries \cup {"notify"}
    /\ v = visibility[page] \/ page \in Hideable
    /\ call' = [op |-> "notify", page |-> page]
    /\ result' = [row_changed |-> page_notify_row_changed(Model, page)]
    /\ Becomes(set_visibility(Model, page, v))

NextNotify ==
    \/ NextAssert
    \/ \E page \in pages, v \in BOOLEAN : PageNotify(page, v)

\* The calls of SpecAssert and the notifications of the pages.
SpecNotify == InitWith(AssertApplications) /\ [][NextNotify]_vars

\* ---------------------------------------------------------------- claims

Rows == 1..Len(store)

PlayingRows == {i \in Rows : store[i].playing}

Sign(n) == IF n < 0 THEN -1 ELSE IF n > 0 THEN 1 ELSE 0

\* Rows i and j are different children of the same row.
Siblings(s, i, j) == i # j /\ iter_parent(s, i) = iter_parent(s, j)

\* The category of the group at the top of the tree row i is in.
GroupCategory(s, i) == Category(s[TopOf(s, i)].page)

\* C1: at most one row of the underlying store has PLAYING set, in every
\* state add_page, remove_page and set_playing_source reach.
C1_AtMostOnePlaying == Cardinality(PlayingRows) <= 1

\* C2: the page of every row that holds a group is visible exactly when the
\* row has a child.
C2_GroupVisibleIffChild ==
    \A i \in Rows :
        RB_IS_DISPLAY_PAGE_GROUP(store[i].page)
            => (visibility[store[i].page] = iter_has_child(store, i))

\* C2 witness: remove_page took the last child of a group, which is hidden
\* again, while another group has a child and is visible.
C2_Witness ==
    /\ call.op = "remove_page"
    /\ result.toggled \in Groups
    /\ \E i \in Rows : /\ store[i].page = result.toggled
                       /\ ~iter_has_child(store, i)
                       /\ ~visibility[store[i].page]
    /\ \E i \in Rows : /\ RB_IS_DISPLAY_PAGE_GROUP(store[i].page)
                       /\ iter_has_child(store, i)
                       /\ visibility[store[i].page]

\* C3: the visible function answers TRUE for a row exactly when the page of
\* the row has visibility TRUE, and FALSE for a row without a page: so the
\* filter shows a row exactly when its page is visible, and was told FALSE for
\* the empty row add_page had just appended.
C3_RowVisibleIffPageVisible ==
    /\ \A pg \in Pages :
          rb_display_page_model_is_row_visible(visibility, pg) = visibility[pg]
    /\ rb_display_page_model_is_row_visible(visibility, NULL) = FALSE
    /\ \A i \in Rows : store[i].shown = visibility[store[i].page]
    /\ call.op = "add_page" => result.inserted_shown = FALSE

\* C3 witness: after an add_page the store holds a row the filter hides, its
\* page being hidden, and a row the filter shows.
C3_Witness ==
    /\ call.op = "add_page"
    /\ \E i \in Rows : ~visibility[store[i].page] /\ ~store[i].shown
    /\ \E i \in Rows : visibility[store[i].page] /\ store[i].shown

\* (category, name) of group a is at most that of group b.
GroupLeq(a, b) ==
    \/ Category(a) < Category(b)
    \/ Category(a) = Category(b) /\ Name(a) <= Name(b)

\* C4: compare_rows orders two groups by category and, the categories equal,
\* by name; the top-level groups of the store are in (category, name) order.
C4_GroupsByCategoryThenName ==
    /\ \A i, j \in Rows :
          (RB_IS_DISPLAY_PAGE_GROUP(store[i].page) /\ RB_IS_DISPLAY_PAGE_GROUP(store[j].page))
          => Sign(compare_rows(store, i, j)) =
                IF Category(store[i].page) # Category(store[j].page)
                THEN Sign(Category(store[i].page) - Category(store[j].page))
                ELSE Sign(Name(store[i].page) - Name(store[j].page))
    /\ \A i, j \in Rows :
          (i < j /\ store[i].depth = 1 /\ store[j].depth = 1)
          => GroupLeq(store[i].page, store[j].page)

\* C4 witness: three groups at top level, two of one category, and one that
\* sorts after another by category though its name sorts before.
C4_Witness ==
    \E i, j, k \in Rows :
        /\ i < j /\ j < k
        /\ store[i].depth = 1 /\ store[j].depth = 1 /\ store[k].depth = 1
        /\ Category(store[i].page) = Category(store[j].page)
        /\ Name(store[k].page) < Name(store[j].page)

\* The pairs of pages <<p, q>> with a row of p before a row of q among the
\* children of one row below a group of category FIXED.
FixedOrder(s) ==
    {<<s[ij[1]].page, s[ij[2]].page>> :
        ij \in {ij \in (1..Len(s)) \X (1..Len(s)) :
                  /\ ij[1] < ij[2]
                  /\ s[ij[1]].depth > 1
                  /\ Siblings(s, ij[1], ij[2])
                  /\ GroupCategory(s, ij[1]) = RB_DISPLAY_PAGE_GROUP_CATEGORY_FIXED}}

HasRow(s, p) == \E i \in 1..Len(s) : s[i].page = p

\* C5: below a FIXED group the children of a row are in the order they were
\* added in: no call changes the order of two of them, and a page add_page
\* adds comes after the children that were there.  So a page that stands
\* before a page that had a row already had a row itself, before that page.
C5_FixedInInsertionOrder ==
    [][\A pq \in FixedOrder(store') :
          HasRow(store, pq[2]) => pq \in FixedOrder(store)]_vars

\* C5 witness: two children of a row below a FIXED group, the first with the
\* name that collates last.
C5_Witness ==
    \E i, j \in Rows :
        /\ i < j /\ Siblings(store, i, j) /\ store[i].depth > 1
        /\ GroupCategory(store, i) = RB_DISPLAY_PAGE_GROUP_CATEGORY_FIXED
        /\ Name(store[i].page) > Name(store[j].page)

\* C6: below a PERSISTENT group compare_rows puts an auto playlist before a
\* static playlist and orders two auto playlists, and two static playlists, by
\* name; below a REMOVABLE or TRANSIENT group it orders by name alone.  The
\* playlists, and the rows below those groups, stand in the store in that order.
C6_PersistentAndByName ==
    \A i, j \in Rows :
        (Siblings(store, i, j) /\ store[i].depth > 1) =>
            LET a == store[i].page
                b == store[j].page
                cmp == compare_rows(store, i, j)
                by_name == Sign(Name(a) - Name(b))
            IN  /\ GroupCategory(store, i) = RB_DISPLAY_PAGE_GROUP_CATEGORY_PERSISTENT =>
                     /\ (Kind(a) = "auto" /\ Kind(b) = "static") => cmp < 0
                     /\ (Kind(a) = "static" /\ Kind(b) = "auto") => cmp > 0
                     /\ (Kind(a) = "auto" /\ Kind(b) = "auto") => Sign(cmp) = by_name
                     /\ (Kind(a) = "static" /\ Kind(b) = "static") => Sign(cmp) = by_name
                /\ GroupCategory(store, i) \in {RB_DISPLAY_PAGE_GROUP_CATEGORY_REMOVABLE,
                                                RB_DISPLAY_PAGE_GROUP_CATEGORY_TRANSIENT} =>
                     /\ Sign(cmp) = by_name
                     /\ i < j => by_name <= 0
                /\ (GroupCategory(store, i) = RB_DISPLAY_PAGE_GROUP_CATEGORY_PERSISTENT /\ i < j) =>
                     /\ ~(Kind(a) = "static" /\ Kind(b) = "auto")
                     /\ (Kind(a) = Kind(b) /\ Kind(a) \in {"auto", "static"}) => by_name <= 0

\* C6 witness: below a PERSISTENT group an auto playlist stands before a static
\* playlist whose name collates first, beside two static playlists.
C6_Witness ==
    \E i, j, k \in Rows :
        /\ i < j /\ j < k /\ Siblings(store, i, j) /\ Siblings(store, j, k)
        /\ GroupCategory(store, i) = RB_DISPLAY_PAGE_GROUP_CATEGORY_PERSISTENT
        /\ Kind(store[i].page) = "auto"
        /\ Kind(store[j].page) = "static" /\ Kind(store[k].page) = "static"
        /\ Name(store[j].page) < Name(store[i].page)

HandledTypes ==
    {"text/uri-list", "application/x-rhythmbox-entry", "text/x-rhythmbox-album",
     "text/x-rhythmbox-artist", "text/x-rhythmbox-genre"}

\* C7, as the claim states it: drag_data_received returns TRUE for a drop of
\* each of the five handled types and of application/x-rhythmbox-source.
C7_SixTypesAccepted ==
    (call.op = "drag_data_received"
     /\ call.type \in HandledTypes \cup {"application/x-rhythmbox-source"})
    => result.ret = TRUE

\* C7: drag_data_received returns TRUE for a drop of text/uri-list,
\* application/x-rhythmbox-entry, text/x-rhythmbox-album, -artist or -genre,
\* and FALSE, with no signal, for a drop of application/x-rhythmbox-source.
C7_FiveTypesAccepted ==
    call.op = "drag_data_received" =>
        /\ call.type \in HandledTypes => result.ret = TRUE
        /\ call.type = "application/x-rhythmbox-source" =>
              result.ret = FALSE /\ result.emitted = <<>>

\* C7 witness: a drop of an album on a row was taken.
C7_Witness ==
    /\ call.op = "drag_data_received"
    /\ call.type = "text/x-rhythmbox-album"
    /\ call.dest # NoPath
    /\ result.ret = TRUE

\* C8: drag_data_received with a type outside the five handled ones returns
\* FALSE, emits no drop-received and leaves the store as it was; drag_data_get
\* with a target that is not source, uri-list or entry returns FALSE and does
\* not set the selection data.
C8_UnsupportedTargetNoOp ==
    [][/\ (call'.op = "drag_data_received" /\ call'.type \notin HandledTypes)
          => /\ result'.ret = FALSE
             /\ result'.emitted = <<>>
             /\ store' = store
       /\ (call'.op = "drag_data_get"
           /\ call'.target \notin {"application/x-rhythmbox-source", "text/uri-list",
                                   "application/x-rhythmbox-entry"})
          => /\ result'.ret = FALSE
             /\ result'.selection = UnwrittenSelection
             /\ store' = store]_vars

\* C8 witness: a drag of a row of the model was asked for an album and got
\* nothing.
C8_Witness ==
    /\ call.op = "drag_data_get"
    /\ call.target = "text/x-rhythmbox-album"
    /\ call.path # NoPath /\ filter_get_iter(store, 0, call.path) # 0
    /\ result.ret = FALSE

\* The path of row i in the filter model: at each level the number of shown
\* rows before it among the children of its parent.
RECURSIVE FilterPathOf(_, _)
FilterPathOf(s, i) ==
    LET parent == iter_parent(s, i)
        before == {k \in 1..(i - 1) : iter_parent(s, k) = parent /\ s[k].shown}
    IN  (IF parent = 0 THEN <<>> ELSE FilterPathOf(s, parent)) \o <<Cardinality(before)>>

\* The page of the row of the filter model at a path, NULL when there is none.
PageAtPath(s, path) ==
    LET at == {i \in 1..Len(s) : InFilter(s, i) /\ FilterPathOf(s, i) = path}
    IN  IF at = {} THEN NULL ELSE s[CHOOSE i \in at : TRUE].page

\* C9: a drop that is taken emits one drop-received, with the position of the
\* drop; its target is the page at the destination path (NULL without a path
\* or without a row at it) for text/uri-list and application/x-rhythmbox-entry,
\* and NULL for text/x-rhythmbox-album, -artist and -genre.
C9_OneDropReceived ==
    (call.op = "drag_data_received" /\ result.ret = TRUE) =>
        /\ Len(result.emitted) = 1
        /\ result.emitted[1].pos = call.pos
        /\ call.type \in {"text/uri-list", "application/x-rhythmbox-entry"}
              => result.emitted[1].target = PageAtPath(store, call.dest)
        /\ call.type \in {"text/x-rhythmbox-album", "text/x-rhythmbox-artist",
                          "text/x-rhythmbox-genre"}
              => result.emitted[1].target = NULL

\* C9 witness: a drop of uris on the first child the filter shows of the first
\* group, which is the second child in the store, the first being hidden.
C9_Witness ==
    /\ call.op = "drag_data_received"
    /\ call.type = "text/uri-list"
    /\ call.dest = <<0, 0>>
    /\ Len(store) >= 3
    /\ store[2].depth = 2 /\ ~store[2].shown
    /\ store[3].depth = 2
    /\ result.emitted = <<[target |-> store[3].page, pos |-> call.pos]>>

\* The pages of row i and of the rows above it all have visibility TRUE.
RECURSIVE ChainVisible(_, _, _)
ChainVisible(s, vis, i) ==
    /\ vis[s[i].page]
    /\ iter_parent(s, i) = 0 \/ ChainVisible(s, vis, iter_parent(s, i))

\* C10: find_page returns TRUE only with the iter of a row that holds the page
\* and is visible with every row above it; for a page of the store that is
\* hidden, or below a hidden row, it returns FALSE and does not write the iter;
\* for a visible page it returns TRUE and the iter of a row that holds it.
C10_FindsVisiblePages ==
    call.op = "find_page" =>
        LET rows == {i \in Rows : store[i].page = call.page}
            visible == {i \in rows : ChainVisible(store, visibility, i)}
        IN  /\ result.ret = TRUE => result.iter \in visible
            /\ (rows # {} /\ visible = {})
                  => result.ret = FALSE /\ result.iter = UnwrittenIter
            /\ visible # {}
                  => result.ret = TRUE /\ store[result.iter].page = call.page

\* C10 witness: find_page did not find a page whose own visibility is TRUE and
\* whose row is below the row of a hidden page.
C10_Witness ==
    /\ call.op = "find_page"
    /\ result.ret = FALSE /\ result.iter = UnwrittenIter
    /\ \E i \in Rows : /\ store[i].page = call.page
                       /\ visibility[call.page]
                       /\ iter_parent(store, i) # 0
                       /\ ~visibility[store[iter_parent(store, i)].page]

\* C11: add_page with a parent, and remove_page, fail their assertion exactly
\* when the parent, or the page, has no row in the underlying store, a row the
\* filter hides being a row; a call that fails adds no row, removes none and
\* changes no visibility, and a call that passes adds, or removes, a row.
C11_AssertionChangesNothing ==
    [][/\ (call'.op = "add_page" /\ call'.parent # NULL) =>
             IF HasRow(store, call'.parent)
             THEN ~call'.aborted /\ Len(store') = Len(store) + 1
             ELSE /\ call'.aborted
                  /\ store' = store /\ visibility' = visibility /\ connected' = connected
       /\ call'.op = "remove_page" =>
             IF HasRow(store, call'.page)
             THEN ~call'.aborted /\ Len(store') < Len(store)
             ELSE /\ call'.aborted
                  /\ store' = store /\ visibility' = visibility /\ connected' = connected]_vars

\* C11 witness: add_page failed its assertion on a parent without a row, in a
\* store that holds rows, one of them hidden by the filter with a child.
C11_Witness ==
    /\ call.op = "add_page" /\ call.aborted
    /\ ~HasRow(store, call.parent)
    /\ \E i \in Rows : ~store[i].shown /\ iter_has_child(store, i)

\* C12: row_drop_position rejects when a source is offered over a path; else,
\* when uris or entries are offered, it takes the drop INTO_OR_BEFORE exactly
\* when there is no path or the row at the path holds a source that can paste;
\* else, when an album, artist or genre is offered and no source, it takes the
\* drop AFTER; else it rejects.  Rejecting, it does not write the position.
C12_RowDropPosition ==
    call.op = "row_drop_position" =>
        LET T == call.targets
            d == call.dest_path
            page == PageAtPath(store, d)
            source == "application/x-rhythmbox-source" \in T
            entries == "text/uri-list" \in T \/ "application/x-rhythmbox-entry" \in T
            property == T \cap {"text/x-rhythmbox-album", "text/x-rhythmbox-artist",
                                "text/x-rhythmbox-genre"} # {}
            can_paste == page \in Sources /\ rb_source_can_paste(page)
            rejects == result = [ret |-> FALSE, pos |-> UnwrittenPos]
            takes(pos) == result = [ret |-> TRUE, pos |-> pos]
        IN  IF source /\ d # NoPath THEN rejects
            ELSE IF entries
            THEN IF d = NoPath \/ can_paste
                 THEN takes("GTK_TREE_VIEW_DROP_INTO_OR_BEFORE")
                 ELSE rejects
            ELSE IF property /\ ~source THEN takes("GTK_TREE_VIEW_DROP_AFTER")
            ELSE rejects

\* C12 witness: uris offered over the row of a source that cannot paste, the
\* second child the filter shows of a group, are rejected.
C12_Witness ==
    /\ call.op = "row_drop_position"
    /\ call.targets = {"text/uri-list"}
    /\ call.dest_path = <<0, 1>>
    /\ PageAtPath(store, call.dest_path) \in Sources
    /\ ~rb_source_can_paste(PageAtPath(store, call.dest_path))
    /\ result.ret = FALSE

\* The page of the row above the row of page p, NULL at top level.
ParentPage(s, p) ==
    LET i == CHOOSE i \in 1..Len(s) : s[i].page = p
    IN  IF iter_parent(s, i) = 0 THEN NULL ELSE s[iter_parent(s, i)].page

\* C13: after set_playing_source(s) every row of a source, shown or not, has
\* PLAYING exactly when its page is s; the call leaves the rows, the page and
\* the parent of each, and the visibility of every page as they were.
C13_PlayingIsTheSource ==
    [][call'.op = "set_playing_source" =>
          /\ \A i \in 1..Len(store') :
                RB_IS_SOURCE(store'[i].page)
                   => (store'[i].playing = (store'[i].page = call'.source))
          /\ Len(store') = Len(store)
          /\ \A p \in pages :
                /\ HasRow(store', p) = HasRow(store, p)
                /\ HasRow(store, p) => ParentPage(store', p) = ParentPage(store, p)
          /\ visibility' = visibility]_vars

\* C14: for two different rows below one parent, compare_rows of the one and
\* the other has the sign opposite to compare_rows of the other and the one,
\* and the group at the top of the rows gives it a category it has a case for.
C14_CompareRowsAntisymmetric ==
    \A i, j \in Rows :
        Siblings(store, i, j) =>
            /\ RB_IS_DISPLAY_PAGE_GROUP(store[TopOf(store, i)].page)
            /\ Sign(compare_rows(store, i, j)) = 0 - Sign(compare_rows(store, j, i))

\* Row j is row i or a row below it.
RECURSIVE IsBelow(_, _, _)
IsBelow(s, j, i) ==
    \/ j = i
    \/ iter_parent(s, j) # 0 /\ IsBelow(s, iter_parent(s, j), i)

\* The pages of the row of page p and of the rows below it.
PagesBelow(s, p) ==
    {s[j].page : j \in {j \in 1..Len(s) :
                          \E i \in 1..Len(s) : s[i].page = p /\ IsBelow(s, j, i)}}

\* C15: after remove_page(p), p in the store, neither lookup finds the page of
\* the row of p or of a row that was below it; every other page keeps its row,
\* with its parent and its PLAYING; and a property notified on a page that has
\* no row, as these have none, emits no row-changed and leaves the store.
C15_RemovePageFrame ==
    [][/\ (call'.op = "remove_page" /\ ~call'.aborted) =>
             LET gone == PagesBelow(store, call'.page)
             IN  /\ \A d \in gone :
                       /\ find_in_real_model(store', d) = 0
                       /\ ~rb_display_page_model_find_page(store', d, UnwrittenIter).ret
                 /\ Len(store') = Len(store) - Cardinality(gone)
                 /\ \A q \in pages \ gone :
                       HasRow(store, q) =>
                          /\ HasRow(store', q)
                          /\ ParentPage(store', q) = ParentPage(store, q)
                          /\ \A i \in 1..Len(store), j \in 1..Len(store') :
                                (store[i].page = q /\ store'[j].page = q)
                                   => store'[j].playing = store[i].playing
       /\ (call'.op = "notify" /\ ~HasRow(store, call'.page)) =>
             /\ result'.row_changed = 0
             /\ store' = store]_vars

\* C15 witness: remove_page took a row with a row below it, whose page is
\* still connected to page_notify_cb, and left a row that is playing.
C15_Witness ==
    /\ call.op = "remove_page" /\ ~call.aborted
    /\ \E d \in connected : d # call.page /\ ~HasRow(store, d)
    /\ ~HasRow(store, call.page)
    /\ \E i \in Rows : store[i].playing

====
